---------------------------- MODULE Spec2Model ----------------------------
(***************************************************************************)
(* Read path of turbo-persistence's static sorted file                     *)
(* (turbopack/crates/turbo-persistence/src/static_sorted_file.rs).         *)
(*                                                                         *)
(* Byte slices are sequences of numbers 0..255.  A Rust expression that    *)
(* can fail has three outcomes, kept apart throughout:                     *)
(*   "Ok"    the value,                                                    *)
(*   "Err"   an Err(..) propagated by `?` or bail!,                        *)
(*   "Panic" a panic: an out-of-range slice or index, or a usize           *)
(*           subtraction below zero (which panics in a debug build and     *)
(*           wraps to a huge index that panics at the next slice in a      *)
(*           release build).                                               *)
(***************************************************************************)
EXTENDS Integers, Sequences, FiniteSets, TLC

\* ------------------------------------------------------------------------
\* Bounds of the model
\* ------------------------------------------------------------------------

\* Longest key, in bytes, of the index-block and key-block search inputs.
MaxKeyLen == 2

\* Most separators of an index block of the search inputs.
MaxSeps == 4

\* Most entries of a key block of the search inputs.
MaxEntries == 3

\* Byte values the generated keys are made of.
KeyBytes == {1, 2}

\* ------------------------------------------------------------------------
\* Program constants
\* ------------------------------------------------------------------------

BLOCK_TYPE_INDEX == 0
BLOCK_TYPE_KEY == 1
KEY_BLOCK_ENTRY_TYPE_NORMAL == 0
KEY_BLOCK_ENTRY_TYPE_BLOB == 1
KEY_BLOCK_ENTRY_TYPE_DELETED == 2

\* ------------------------------------------------------------------------
\* Byte-level helpers
\* ------------------------------------------------------------------------

\* <[u8] as Ord>::cmp: lexicographic byte order, a proper prefix is Less.
RECURSIVE cmp(_, _)
cmp(a, b) ==
    IF a = <<>> /\ b = <<>> THEN "Equal"
    ELSE IF a = <<>> THEN "Less"
    ELSE IF b = <<>> THEN "Greater"
    ELSE IF Head(a) < Head(b) THEN "Less"
    ELSE IF Head(a) > Head(b) THEN "Greater"
    ELSE cmp(Tail(a), Tail(b))

\* &s[from..]: the slice without its first `from` bytes (from <= Len(s)).
DropBytes(s, from) == SubSeq(s, from + 1, Len(s))

\* ReadBytesExt::read_u16::<BE> on a slice: Err when fewer than 2 bytes are left.
read_u16(s) ==
    IF Len(s) < 2 THEN [tag |-> "Err", num |-> 0]
    ELSE [tag |-> "Ok", num |-> s[1] * 256 + s[2]]

\* ReadBytesExt::read_u24::<BE> on a slice: Err when fewer than 3 bytes are left.
read_u24(s) ==
    IF Len(s) < 3 THEN [tag |-> "Err", num |-> 0]
    ELSE [tag |-> "Ok", num |-> s[1] * 65536 + s[2] * 256 + s[3]]

\* ReadBytesExt::read_u32::<BE> on a slice: Err when fewer than 4 bytes are left.
read_u32(s) ==
    IF Len(s) < 4 THEN [tag |-> "Err", num |-> 0]
    ELSE [tag |-> "Ok", num |-> s[1] * 16777216 + s[2] * 65536 + s[3] * 256 + s[4]]

\* Big-endian encodings, used to lay out the blocks the searches are run on.
U16(n) == << (n \div 256) % 256, n % 256 >>
U24(n) == << (n \div 65536) % 256, (n \div 256) % 256, n % 256 >>
U32(n) == << (n \div 16777216) % 256, (n \div 65536) % 256, (n \div 256) % 256, n % 256 >>

RECURSIVE Concat(_)
Concat(ss) == IF ss = <<>> THEN <<>> ELSE Head(ss) \o Concat(Tail(ss))

\* ------------------------------------------------------------------------
\* lookup_index_block
\* ------------------------------------------------------------------------

\* Mutant of EntryKeyEnd: the separator runs up to the next entry's start.
EntryKeyEndWithChild(next_start) == next_start

\* Line 203: a separator ends one byte, the child byte, before the offset
\* read from the table.
EntryKeyEnd(next_start) == next_start - 1

\* get_key (lines 189-206): separator `index` of an index block.
get_key(offsets, entries, entry_count, index) ==
    LET startR == IF index = 0 THEN [tag |-> "Ok", num |-> 0]
                  ELSE IF (index - 1) * 2 > Len(offsets) THEN [tag |-> "Panic", num |-> 0]
                  ELSE read_u16(DropBytes(offsets, (index - 1) * 2))
        endR == IF index = entry_count - 1 THEN [tag |-> "Ok", num |-> Len(entries)]
                ELSE IF index * 2 > Len(offsets) THEN [tag |-> "Panic", num |-> 0]
                ELSE LET r == read_u16(DropBytes(offsets, index * 2))
                     IN  IF r.tag # "Ok" THEN r
                         ELSE IF r.num = 0 THEN [tag |-> "Panic", num |-> 0]
                         ELSE [tag |-> "Ok", num |-> EntryKeyEnd(r.num)]
    IN  IF startR.tag # "Ok" THEN [tag |-> startR.tag, key |-> <<>>]
        ELSE IF endR.tag # "Ok" THEN [tag |-> endR.tag, key |-> <<>>]
        ELSE IF startR.num > endR.num \/ endR.num > Len(entries)
             THEN [tag |-> "Panic", key |-> <<>>]
        ELSE [tag |-> "Ok", key |-> SubSeq(entries, startR.num + 1, endR.num)]

\* get_block (lines 207-209): the child byte that ends entry `index`.
\* `index` may be -1 here: the callers' m - 1 and l - 1 are usize subtractions.
get_block(offsets, entries, index) ==
    IF index < 0 \/ index * 2 > Len(offsets) THEN [tag |-> "Panic", byte |-> 0]
    ELSE LET r == read_u16(DropBytes(offsets, index * 2))
         IN  IF r.tag # "Ok" THEN [tag |-> r.tag, byte |-> 0]
             ELSE IF r.num = 0 \/ r.num - 1 >= Len(entries) THEN [tag |-> "Panic", byte |-> 0]
             ELSE [tag |-> "Ok", byte |-> entries[r.num]]

\* Result of lookup_index_block: Ok(Some(next)), Ok(None), Err or Panic.
IndexRes(tag, some, next) == [tag |-> tag, some |-> some, next |-> next]

\* Ok(Some(get_block(..)?))
SomeBlock(b) ==
    IF b.tag = "Ok" THEN IndexRes("Ok", TRUE, b.byte) ELSE IndexRes(b.tag, FALSE, 0)

\* Mutant of EqualChild: an Equal hit descends into the child of the same
\* position.
EqualChildSame(m) == m

\* The child position an Equal hit at m descends into (line 249).
EqualChild(m) == m - 1

\* Mutant of ExitChild: the finished search descends into child l.
ExitChildNext(l) == l

\* The child position the finished search descends into (line 256).
ExitChild(l) == l - 1

\* Mutant of SearchEnd: the search starts with r one past the entry count.
SearchEndPast(entry_count) == entry_count + 1

\* Line 237: let mut r = entry_count.
SearchEnd(entry_count) == entry_count

\* The binary search of lines 238-256.
RECURSIVE index_search(_, _, _, _, _, _)
index_search(offsets, entries, entry_count, key, l, r) ==
    IF l < r
    THEN LET m == (l + r) \div 2
             mid == get_key(offsets, entries, entry_count, m)
         IN  IF mid.tag # "Ok" THEN IndexRes(mid.tag, FALSE, 0)
             ELSE CASE cmp(key, mid.key) = "Less" ->
                          index_search(offsets, entries, entry_count, key, l, m)
                    [] cmp(key, mid.key) = "Equal" ->
                          SomeBlock(get_block(offsets, entries, EqualChild(m)))
                    [] OTHER ->
                          index_search(offsets, entries, entry_count, key, m + 1, r)
    ELSE SomeBlock(get_block(offsets, entries, ExitChild(l)))

\* Line 212: the key lies before the first separator.
BelowRange(key, left_key) == cmp(key, left_key) = "Less"

\* Mutant of AboveRange: the operands of the comparison swapped.
AboveRangeSwapped(right_key, key) == cmp(key, right_key) = "Less"

\* Line 224: the key lies after the last separator.
AboveRange(right_key, key) == cmp(right_key, key) = "Less"

\* lookup_index_block (lines 184-257).  `block` is the decompressed block
\* after its type byte.
lookup_index_block(block, key) ==
    LET cnt == read_u16(block)
    IN  IF cnt.tag # "Ok" THEN IndexRes("Err", FALSE, 0)
        ELSE LET entry_count == cnt.num
                 body == DropBytes(block, 2)
                 start_entries == (entry_count - 1) * 2
             IN  IF entry_count = 0 \/ start_entries > Len(body)
                 THEN IndexRes("Panic", FALSE, 0)
                 ELSE LET offsets == SubSeq(body, 1, start_entries)
                          entries == DropBytes(body, start_entries)
                          left == get_key(offsets, entries, entry_count, 0)
                          right == get_key(offsets, entries, entry_count, entry_count - 1)
                      IN  IF left.tag # "Ok" THEN IndexRes(left.tag, FALSE, 0)
                          ELSE IF BelowRange(key, left.key) THEN IndexRes("Ok", FALSE, 0)
                          ELSE IF cmp(key, left.key) = "Equal"
                               THEN SomeBlock(get_block(offsets, entries, 0))
                          ELSE IF right.tag # "Ok" THEN IndexRes(right.tag, FALSE, 0)
                          ELSE IF AboveRange(right.key, key) THEN IndexRes("Ok", FALSE, 0)
                          ELSE IF cmp(right.key, key) = "Equal"
                               THEN SomeBlock(get_block(offsets, entries, entry_count - 2))
                          ELSE index_search(offsets, entries, entry_count, key, 0,
                                            SearchEnd(entry_count))


\* ------------------------------------------------------------------------
\* lookup_key_block
\* ------------------------------------------------------------------------

\* Result of get_entry: Ok((key, ty, val)), Err or Panic.
EntryRes(tag, key, ty, val) == [tag |-> tag, key |-> key, ty |-> ty, val |-> val]

\* &entries[from..to] twice over, as get_entry's match arms build (key, ty, val):
\* key = entries[start..keyEnd], val = entries[valStart..end].
EntrySlices(entries, ty, start, keyEnd, valStart, end) ==
    IF keyEnd < 0 \/ start > keyEnd \/ keyEnd > Len(entries)
       \/ valStart > end \/ end > Len(entries)
    THEN EntryRes("Panic", <<>>, ty, <<>>)
    ELSE EntryRes("Ok", SubSeq(entries, start + 1, keyEnd), ty,
                  SubSeq(entries, valStart + 1, end))

\* Mutant of InvalidEntryType: an unknown type tag is read as Deleted.
InvalidEntryTypeAsDeleted(entries, ty, start, end) ==
    EntrySlices(entries, ty, start, end, start, end)

\* Lines 289-291: bail!("Invalid key block entry type").
InvalidEntryType(entries, ty, start, end) == EntryRes("Err", <<>>, ty, <<>>)

\* get_entry (lines 269-293): key, type tag and trailer of entry `index`.
get_entry(offsets, entries, entry_count, index) ==
    IF index * 4 > Len(offsets) THEN EntryRes("Panic", <<>>, 0, <<>>)
    ELSE LET offset == DropBytes(offsets, index * 4)
             startR == read_u24(DropBytes(offset, 1))
             endR == IF index = entry_count - 1 THEN [tag |-> "Ok", num |-> Len(entries)]
                     ELSE IF (index + 1) * 4 + 1 > Len(offsets)
                          THEN [tag |-> "Panic", num |-> 0]
                     ELSE read_u24(DropBytes(offsets, (index + 1) * 4 + 1))
         IN  IF Len(offset) < 1 \/ startR.tag # "Ok" THEN EntryRes("Err", <<>>, 0, <<>>)
             ELSE IF endR.tag # "Ok" THEN EntryRes(endR.tag, <<>>, 0, <<>>)
             ELSE LET ty == offset[1]
                      start == startR.num
                      end == endR.num
                  IN  CASE ty = KEY_BLOCK_ENTRY_TYPE_NORMAL ->
                               EntrySlices(entries, ty, start, end - 8, end - 8, end)
                        [] ty = KEY_BLOCK_ENTRY_TYPE_BLOB ->
                               EntrySlices(entries, ty, start, end - 4, end - 4, end)
                        [] ty = KEY_BLOCK_ENTRY_TYPE_DELETED ->
                               EntrySlices(entries, ty, start, end, start, end)
                        [] OTHER -> InvalidEntryType(entries, ty, start, end)

\* Result of the search of lookup_key_block: Ok with hit = TRUE and the
\* matched entry's (ty, val), Ok with hit = FALSE (KeyMiss), Err or Panic.
KeyRes(tag, hit, ty, val) == [tag |-> tag, hit |-> hit, ty |-> ty, val |-> val]

\* Mutant of KeyMid: the midpoint rounded up.
KeyMidUp(l, r) == (l + r + 1) \div 2

\* The midpoint the key-block search probes (line 298).
KeyMid(l, r) == (l + r) \div 2

\* The binary search of lines 294-312, up to the call of handle_key_match.
RECURSIVE key_search(_, _, _, _, _, _)
key_search(offsets, entries, entry_count, key, l, r) ==
    IF l < r
    THEN LET m == KeyMid(l, r)
             mid == get_entry(offsets, entries, entry_count, m)
         IN  IF mid.tag # "Ok" THEN KeyRes(mid.tag, FALSE, 0, <<>>)
             ELSE CASE cmp(key, mid.key) = "Less" ->
                          key_search(offsets, entries, entry_count, key, l, m)
                    [] cmp(key, mid.key) = "Equal" ->
                          KeyRes("Ok", TRUE, mid.ty, mid.val)
                    [] OTHER ->
                          key_search(offsets, entries, entry_count, key, m + 1, r)
    ELSE KeyRes("Ok", FALSE, 0, <<>>)

\* lookup_key_block (lines 259-313) up to the call of handle_key_match.
\* `block` is the decompressed block after its type byte.
lookup_key_block(block, key) ==
    LET cnt == read_u24(block)
    IN  IF cnt.tag # "Ok" THEN KeyRes("Err", FALSE, 0, <<>>)
        ELSE LET entry_count == cnt.num
                 body == DropBytes(block, 3)
             IN  IF entry_count * 4 > Len(body) THEN KeyRes("Panic", FALSE, 0, <<>>)
                 ELSE key_search(SubSeq(body, 1, entry_count * 4),
                                 DropBytes(body, entry_count * 4),
                                 entry_count, key, 0, entry_count)


\* ------------------------------------------------------------------------
\* Inputs of the two searches: blocks laid out the way the readers above
\* decode them
\* ------------------------------------------------------------------------

\* All keys of at most MaxKeyLen bytes over KeyBytes.
Keys == UNION { [1..n -> KeyBytes] : n \in 0..MaxKeyLen }

\* seps is sorted in byte order (equal neighbours allowed).
Sorted(seps) ==
    \A i \in 1..(Len(seps) - 1) : cmp(seps[i], seps[i + 1]) # "Greater"

\* seps is strictly ascending in byte order.
StrictlySorted(seps) ==
    \A i \in 1..(Len(seps) - 1) : cmp(seps[i], seps[i + 1]) = "Less"

\* The sorted lists of n keys.
RECURSIVE SortedLists(_)
SortedLists(n) ==
    IF n = 0 THEN { <<>> }
    ELSE { t \in { Append(s, k) : s \in SortedLists(n - 1), k \in Keys } : Sorted(t) }

\* Sum of the lengths of the first i parts.
RECURSIVE EndOf(_, _)
EndOf(parts, i) == IF i = 0 THEN 0 ELSE EndOf(parts, i - 1) + Len(parts[i])

\* The body of an index block as get_key and get_block read it: the entry
\* count, the end offsets of all entries but the last, then the entries.
\* Entry i < n is separator i followed by its child byte; the bytes from the
\* last offset to the end of the block are the last separator.
IndexBlockBytes(seps, children) ==
    LET n == Len(seps)
        parts == [i \in 1..n |-> IF i < n THEN seps[i] \o << children[i] >> ELSE seps[i]]
    IN  U16(n) \o Concat([i \in 1..(n - 1) |-> U16(EndOf(parts, i))]) \o Concat(parts)

\* The body of an index block in which every entry, the last included, is a
\* separator followed by a child byte.
IndexBlockBytesTrailing(seps, children) ==
    LET n == Len(seps)
        parts == [i \in 1..n |-> seps[i] \o << children[i] >>]
    IN  U16(n) \o Concat([i \in 1..(n - 1) |-> U16(EndOf(parts, i))]) \o Concat(parts)

\* The child byte the generated index blocks store at position i (0-based).
ChildByte(i) == 100 + i

\* The 8-byte trailer of a Normal entry: value block, size, position.
NormalTrailer(block, size, position) == << block >> \o U24(size) \o U32(position)

\* The body of a key block as get_entry reads it: the entry count, one
\* (type, start offset) record per entry, then key and trailer of each entry.
KeyBlockBytes(ents) ==
    LET n == Len(ents)
        parts == [i \in 1..n |-> ents[i].key \o ents[i].val]
    IN  U24(n) \o Concat([i \in 1..n |-> << ents[i].ty >> \o U24(EndOf(parts, i - 1))])
               \o Concat(parts)

\* Entry i (1-based) of a generated key block: the types rotate with rot, the
\* trailers differ from entry to entry.
GenEntry(key, i, rot) ==
    LET ty == (i + rot) % 3
    IN  [key |-> key, ty |-> ty,
         val |-> CASE ty = KEY_BLOCK_ENTRY_TYPE_NORMAL -> NormalTrailer(i, 1, i)
                   [] ty = KEY_BLOCK_ENTRY_TYPE_BLOB -> U32(200 + i)
                   [] OTHER -> <<>>]

\* ------------------------------------------------------------------------
\* State
\* ------------------------------------------------------------------------

VARIABLES
    file,               \* the mapped file behind the one open StaticSortedFile
    header,             \* StaticSortedFile.header: the OnceLock<Header>
    aqmf_cache,         \* AqmfCache, keyed by sequence number
    key_block_cache,    \* BlockCache of the key path, keyed by block index
    value_block_cache,  \* BlockCache of the value path, keyed by block index
    thr,                \* per thread: where its lookup call stands, and its locals
    header_runs,        \* history: runs of header()'s initialiser, by outcome
    reads,              \* history: runs of read_block, by cache, block and outcome
    evicted,            \* history: the cache entries evicted so far
    ix,                 \* lookup_index_block applied to one (block, key)
    kb                  \* the search of lookup_key_block applied to one (block, key)

vars == << file, header, aqmf_cache, key_block_cache, value_block_cache, thr,
           header_runs, reads, evicted, ix, kb >>

lookupVars == << file, header, aqmf_cache, key_block_cache, value_block_cache, thr,
                 header_runs, reads, evicted >>

\* ------------------------------------------------------------------------
\* lookup_index_block as a function of its inputs
\* ------------------------------------------------------------------------

IxIdle == [seps |-> <<>>, key |-> <<>>, block |-> <<>>, done |-> TRUE,
           res |-> IndexRes("Ok", FALSE, 0)]

\* Every sorted list of n separators with every target key.
IxInputs(n) ==
    { [seps |-> s, key |-> k,
       block |-> IndexBlockBytes(s, [i \in 1..(Len(s) - 1) |-> ChildByte(i - 1)]),
       done |-> FALSE, res |-> IndexRes("Ok", FALSE, 0)] :
      s \in SortedLists(n), k \in Keys }

IndexLookup ==
    /\ ~ix.done
    /\ ix' = [ix EXCEPT !.done = TRUE, !.res = lookup_index_block(ix.block, ix.key)]
    /\ UNCHANGED << lookupVars, kb >>

\* ------------------------------------------------------------------------
\* lookup_index_block on separators in any order
\* ------------------------------------------------------------------------

\* The keys of full length.
FullKeys == [1..MaxKeyLen -> KeyBytes]

\* Every list of n separators of full length, in any order and with
\* repetitions, with every target key of full length.
PxInputs(n) ==
    { [seps |-> s, key |-> k,
       block |-> IndexBlockBytes(s, [i \in 1..(Len(s) - 1) |-> ChildByte(i - 1)]),
       done |-> FALSE, res |-> IndexRes("Ok", FALSE, 0)] :
      s \in [1..n -> FullKeys], k \in FullKeys }

\* ------------------------------------------------------------------------
\* get_key and get_block applied to every entry of an index block
\* ------------------------------------------------------------------------

\* Every sorted list of n separators, laid out without and with a child byte
\* after the last separator.
DxInputs(n) ==
    { [seps |-> s, trailing |-> tr,
       block |-> IF tr
                 THEN IndexBlockBytesTrailing(s, [i \in 1..Len(s) |-> ChildByte(i - 1)])
                 ELSE IndexBlockBytes(s, [i \in 1..(Len(s) - 1) |-> ChildByte(i - 1)]),
       done |-> FALSE, keys |-> <<>>, blocks |-> <<>>] :
      s \in SortedLists(n), tr \in BOOLEAN }

\* Lines 185-188, then get_key and get_block for every index below the entry
\* count.
IndexDecode ==
    /\ ~ix.done
    /\ LET entry_count == read_u16(ix.block).num
           body == DropBytes(ix.block, 2)
           start_entries == (entry_count - 1) * 2
           offsets == SubSeq(body, 1, start_entries)
           entries == DropBytes(body, start_entries)
       IN  ix' = [ix EXCEPT !.done = TRUE,
                            !.keys = [i \in 0..(entry_count - 1) |->
                                         get_key(offsets, entries, entry_count, i)],
                            !.blocks = [i \in 0..(entry_count - 1) |->
                                           get_block(offsets, entries, i)]]
    /\ UNCHANGED << lookupVars, kb >>

\* ------------------------------------------------------------------------
\* The search of lookup_key_block as a function of its inputs
\* ------------------------------------------------------------------------

KbIdle == [ents |-> <<>>, key |-> <<>>, block |-> <<>>, done |-> TRUE,
           res |-> KeyRes("Ok", FALSE, 0, <<>>)]

\* Every strictly ascending list of n keys, under each rotation of the entry
\* types, with every target key.
KbInputs(n) ==
    { [ents |-> e, key |-> k, block |-> KeyBlockBytes(e), done |-> FALSE,
       res |-> KeyRes("Ok", FALSE, 0, <<>>)] :
      e \in { [i \in 1..Len(s) |-> GenEntry(s[i], i, rot)] :
              s \in { t \in SortedLists(n) : StrictlySorted(t) },
              rot \in 0..2 },
      k \in Keys }

KeyLookup ==
    /\ ~kb.done
    /\ kb' = [kb EXCEPT !.done = TRUE, !.res = lookup_key_block(kb.block, kb.key)]
    /\ UNCHANGED << lookupVars, ix >>

\* ------------------------------------------------------------------------
\* lookup: the file, the header, the caches
\* ------------------------------------------------------------------------

\* Threads that each run one lookup call on the shared handle.
NumThreads == 2

\* Most cache entries the caches' eviction policy removes in one run.
MaxEvictions == 1

Threads == 1..NumThreads
NoThread == 0

\* The magic number and version header() expects (line 92).
MAGIC == 1397948417

\* const HEADER_SIZE (line 99).
HEADER_SIZE == 12

\* LocationInFile (lines 35-38).
LocationInFile(start, end) == [start |-> start, end |-> end]

\* The Header header()'s initialiser builds from the 12-byte prologue
\* (lines 95-125).
HeaderOf(f) ==
    LET aqmfEnd == HEADER_SIZE + f.aqmf_length
        keyDictEnd == aqmfEnd + f.key_compression_dictionary_length
        valueDictEnd == keyDictEnd + f.value_compression_dictionary_length
    IN  [aqmf |-> LocationInFile(HEADER_SIZE, aqmfEnd),
         key_compression_dictionary |-> LocationInFile(aqmfEnd, keyDictEnd),
         value_compression_dictionary |-> LocationInFile(keyDictEnd, valueDictEnd),
         block_offsets_start |-> valueDictEnd,
         blocks_start |-> valueDictEnd + f.block_count * 4]

\* Mutant of HeaderInitOk: the magic number is not compared.
HeaderInitAnyMagic(f) == f.size >= HEADER_SIZE

\* The initialiser of header() (lines 90-125): Err when the prologue cannot
\* be read or the magic number differs.
HeaderInitOk(f) == f.size >= HEADER_SIZE /\ f.magic = MAGIC

\* OnceLock<Header>: empty, being initialised by one thread, or set.
HeaderEmpty == [state |-> "empty", by |-> NoThread, value |-> <<>>]
HeaderRunning(t) == [state |-> "running", by |-> t, value |-> <<>>]

\* Mutant of HeaderStore: the value is written but the cell is left empty.
HeaderStoreLost(h) == [state |-> "empty", by |-> NoThread, value |-> << h >>]

\* get_or_try_init storing the initialiser's Ok value (line 89).
HeaderStore(h) == [state |-> "set", by |-> NoThread, value |-> << h >>]

\* &self.mmap[loc.start..loc.end]: whether the range lies in the mapping.
InMmap(f, loc) == loc.start <= loc.end /\ loc.end <= f.size

\* A cache entry of quick_cache: the value if present, and the thread holding
\* the placeholder guard of a computation in flight.
EmptyEntry == [val |-> <<>>, guard |-> NoThread]

\* Mutant of GuardResult: the guard is handed out while another thread
\* holds it.
GuardResultNoWait(e) == IF e.val # <<>> THEN "Value" ELSE "Guard"

\* get_value_or_guard(&key, None) (lines 136, 153-154, 350): the value, the
\* guard for the one computing thread, or waiting for that thread.
GuardResult(e) ==
    IF e.val # <<>> THEN "Value"
    ELSE IF e.guard = NoThread THEN "Guard"
    ELSE "Wait"

\* Mutant of CachedBlock: the cached buffer is handed out without its first
\* byte.
CachedBlockShifted(e) == Tail(e.val[1])

\* Receiving GuardResult::Value(block) from a block cache (lines 156, 352).
CachedBlock(e) == e.val[1]

\* Receiving GuardResult::Guard(guard).
GuardTake(e, t) == [e EXCEPT !.guard = t]

\* Mutant of GuardInsert: the computation ends without publishing the value.
GuardInsertLost(e, v) == [val |-> <<>>, guard |-> NoThread]

\* Mutant of GuardInsert: the value is published and the thread keeps the
\* guard.
GuardInsertHeld(e, v) == [val |-> << v >>, guard |-> e.guard]

\* guard.insert(value) (lines 142, 159, 355): publishes the value and ends
\* the computation.
GuardInsert(e, v) == [val |-> << v >>, guard |-> NoThread]

\* Mutant of GuardDrop: the placeholder stays behind when the guard is
\* dropped.
GuardDropKept(e) == e

\* The guard dropped without insert, by `?` returning early or by unwinding.
GuardDrop(e) == [e EXCEPT !.guard = NoThread]

\* aqmf.contains(key) (line 147) of the deserialised filter.
aqmf_contains(filter, key) == key \in filter

\* decompress_with_dict into the zeroed buffer of the declared length
\* (lines 400-405).  A frame is given by what it decompresses to under each
\* dictionary.  Err for a corrupt frame and for output longer than the buffer;
\* shorter output leaves the rest of the buffer zero.
decompress_with_dict(frame, uncompressed_length, dict) ==
    LET out == frame[dict]
    IN  IF ~out.ok \/ Len(out.data) > uncompressed_length
        THEN [tag |-> "Err", buf |-> <<>>]
        ELSE [tag |-> "Ok",
              buf |-> out.data \o [i \in 1..(uncompressed_length - Len(out.data)) |-> 0]]

\* read_block (lines 382-407).  f.blocks[i + 1] is the raw span of block i that
\* the offset table delimits: its declared length and its frame.
read_block(f, block_index, dict) ==
    IF block_index >= Len(f.blocks) THEN [tag |-> "Panic", buf |-> <<>>]
    ELSE LET raw == f.blocks[block_index + 1]
         IN  decompress_with_dict(raw.frame, raw.uncompressed_length, dict)

\* read_key_block (lines 364-371).
read_key_block(f, h, block_index) ==
    IF ~InMmap(f, h.key_compression_dictionary) THEN [tag |-> "Panic", buf |-> <<>>]
    ELSE read_block(f, block_index, "key")

\* read_value_block (lines 373-380).
read_value_block(f, h, block_index) ==
    IF ~InMmap(f, h.value_compression_dictionary) THEN [tag |-> "Panic", buf |-> <<>>]
    ELSE read_block(f, block_index, "value")

\* ArcSlice::slice(position..position + size) (line 360).
arc_slice(buf, position, size) ==
    IF position + size > Len(buf) THEN [tag |-> "Panic", buf |-> <<>>]
    ELSE [tag |-> "Ok", buf |-> SubSeq(buf, position + 1, position + size)]

\* LookupResult (lines 26-33), or how the call ended otherwise.
Result(kind) == [kind |-> kind, value |-> <<>>, sequence_number |-> 0]
Small(value) == [kind |-> "Small", value |-> value, sequence_number |-> 0]
Blob(sequence_number) ==
    [kind |-> "Blob", value |-> <<>>, sequence_number |-> sequence_number]

\* ------------------------------------------------------------------------
\* lookup: the files and keys it is run on
\* ------------------------------------------------------------------------

Dicts == {"key", "value"}

\* A raw block whose frame decompresses to `data` under either dictionary.
Raw(data) ==
    [uncompressed_length |-> Len(data),
     frame |-> [d \in Dicts |-> [ok |-> TRUE, data |-> data]]]

\* What a frame compressed with one dictionary decompresses to under the
\* other: bytes of the same number that are not the block's.
WrongDict(data) == [i \in 1..Len(data) |-> 255]

\* A raw block of the key path: compressed with the key dictionary.
KeyPathRaw(data) ==
    [uncompressed_length |-> Len(data),
     frame |-> [d \in Dicts |-> [ok |-> TRUE,
                                 data |-> IF d = "key" THEN data ELSE WrongDict(data)]]]

\* A raw block of the value path: compressed with the value dictionary.
ValuePathRaw(data) ==
    [uncompressed_length |-> Len(data),
     frame |-> [d \in Dicts |-> [ok |-> TRUE,
                                 data |-> IF d = "value" THEN data ELSE WrongDict(data)]]]

\* A raw block whose first four bytes declare `declared` bytes while its
\* frame decompresses to `data`.
DeclaredRaw(declared, data) ==
    [uncompressed_length |-> declared,
     frame |-> [d \in Dicts |-> [ok |-> TRUE, data |-> data]]]

\* A raw block with a corrupt frame.
CorruptRaw ==
    [uncompressed_length |-> 4,
     frame |-> [d \in Dicts |-> [ok |-> FALSE, data |-> <<>>]]]

Entry(key, ty, val) == [key |-> key, ty |-> ty, val |-> val]

\* The keys the filter of every file below reports as possibly present:
\* << 1 >> and << 7 >> are false positives, << 8 >> is reported absent.
FilterKeys == { << b >> : b \in 1..7 }

\* A mapped file: its prologue fields, its filter section (whether it
\* deserialises, and to which filter) and its raw blocks.
MkFile(magic, aqmfOk, blocks) ==
    [magic |-> magic,
     aqmf_length |-> 3,
     key_compression_dictionary_length |-> 2,
     value_compression_dictionary_length |-> 2,
     block_count |-> Len(blocks),
     size |-> HEADER_SIZE + 7 + 9 * Len(blocks),
     aqmf |-> [ok |-> aqmfOk, keys |-> FilterKeys],
     blocks |-> blocks]

\* Block 0: index block with separators 2, 4, 6 over key blocks 1 and 2.
RootIndex == KeyPathRaw(<< BLOCK_TYPE_INDEX >> \o
                        IndexBlockBytes(<< << 2 >>, << 4 >>, << 6 >> >>, << 1, 2 >>))

\* Block 1: keys 2 (Normal, in value block 3), 3 (Deleted), 4 (Blob).
LeftLeaf ==
    KeyPathRaw(<< BLOCK_TYPE_KEY >> \o
               KeyBlockBytes(<< Entry(<< 2 >>, KEY_BLOCK_ENTRY_TYPE_NORMAL,
                                      NormalTrailer(3, 2, 0)),
                                Entry(<< 3 >>, KEY_BLOCK_ENTRY_TYPE_DELETED, <<>>),
                                Entry(<< 4 >>, KEY_BLOCK_ENTRY_TYPE_BLOB, U32(9)) >>))

\* Block 2: keys 5 (Normal, in value block 3), 6 (Deleted).
RightLeaf ==
    KeyPathRaw(<< BLOCK_TYPE_KEY >> \o
               KeyBlockBytes(<< Entry(<< 5 >>, KEY_BLOCK_ENTRY_TYPE_NORMAL,
                                      NormalTrailer(3, 1, 2)),
                                Entry(<< 6 >>, KEY_BLOCK_ENTRY_TYPE_DELETED, <<>>) >>))

\* Block 3: the value block.
Values == ValuePathRaw(<< 10, 11, 12 >>)

\* An index block whose only child is the block itself.
SelfIndex == KeyPathRaw(<< BLOCK_TYPE_INDEX >> \o
                        IndexBlockBytes(<< << 2 >>, << 6 >> >>, << 0 >>))

\* An index block that declares no entries.
EmptyIndex == KeyPathRaw(<< BLOCK_TYPE_INDEX >> \o U16(0))

GoodFile == MkFile(MAGIC, TRUE, << RootIndex, LeftLeaf, RightLeaf, Values >>)
BadMagicFile == MkFile(MAGIC + 1, TRUE, << RootIndex, LeftLeaf, RightLeaf, Values >>)
BadFilterFile == MkFile(MAGIC, FALSE, << RootIndex, LeftLeaf, RightLeaf, Values >>)
CorruptRootFile == MkFile(MAGIC, TRUE, << CorruptRaw, LeftLeaf, RightLeaf, Values >>)
CorruptValuesFile == MkFile(MAGIC, TRUE, << RootIndex, LeftLeaf, RightLeaf, CorruptRaw >>)
CyclicFile == MkFile(MAGIC, TRUE, << SelfIndex >>)
EmptyIndexFile == MkFile(MAGIC, TRUE, << EmptyIndex >>)

Files == { GoodFile, BadMagicFile, BadFilterFile, CorruptRootFile, CorruptValuesFile,
           CyclicFile, EmptyIndexFile }

\* A value block whose frame decompresses to fewer bytes than it declares, and
\* one whose frame decompresses to more.
ShortValues == DeclaredRaw(3, << 10, 11 >>)
LongValues == DeclaredRaw(2, << 10, 11, 12 >>)

\* A block of the key path whose type byte is neither index nor key.
UnknownBlockType == 2
BadTypeBlock == KeyPathRaw(<< UnknownBlockType, 0, 0, 0 >>)

\* An entry type tag that is none of Normal, Blob, Deleted.
UnknownEntryType == 3

\* Key blocks with the keys 2, 4, 6, each entry Deleted or of the unknown
\* type, and no trailers.
EntryTypeLists == [1..3 -> { KEY_BLOCK_ENTRY_TYPE_DELETED, UnknownEntryType }]
TypedEntries(tys) == [i \in 1..3 |-> Entry(<< 2 * i >>, tys[i], <<>>)]
TypedLeaf(tys) == KeyPathRaw(<< BLOCK_TYPE_KEY >> \o KeyBlockBytes(TypedEntries(tys)))

ShortValuesFile == MkFile(MAGIC, TRUE, << RootIndex, LeftLeaf, RightLeaf, ShortValues >>)
LongValuesFile == MkFile(MAGIC, TRUE, << RootIndex, LeftLeaf, RightLeaf, LongValues >>)
BadTypeFile == MkFile(MAGIC, TRUE, << BadTypeBlock >>)
TypedLeafFile(tys) == MkFile(MAGIC, TRUE, << TypedLeaf(tys) >>)

\* The files and keys a single lookup is run on.
SoloFiles ==
    Files \cup { ShortValuesFile, LongValuesFile, BadTypeFile }
          \cup { TypedLeafFile(tys) : tys \in EntryTypeLists }

SoloKeys == { << b >> : b \in 1..8 }

\* The keys looked up: below the first separator, an interior separator,
\* a key with an inline value, above the last separator, absent in the filter.
LookupKeys == { << 1 >>, << 4 >>, << 5 >>, << 7 >>, << 8 >> }

BlockIds(f) == 0..(f.block_count - 1)

CacheEntries(f) == ({"key", "value"} \X BlockIds(f)) \cup { << "aqmf", 0 >> }

\* ------------------------------------------------------------------------
\* lookup, one step of one thread at a time
\* ------------------------------------------------------------------------

\* A thread about to call lookup(key, ..): its locals are not yet set.
\*   contains  what aqmf.contains(key) answered: "unknown" until line 147
\*   ret       the call of header() the thread is in: "aqmf" (line 139) or
\*             "lookup" (line 150)
\*   touched   history: the block cache entries the thread has requested and
\*             was given the value or the guard of
InitThread(key) ==
    [pc |-> "start", key |-> key, aqmf |-> {}, contains |-> "unknown", ret |-> "aqmf",
     current_block |-> 0, block |-> <<>>, vblock |-> 0, position |-> 0, size |-> 0,
     touched |-> {}, result |-> Result("None")]

\* The thread's call has ended with `res`.
Return(t, res) == [thr EXCEPT ![t].pc = "done", ![t].result = res]

\* One more run with the given outcome in a history counter.
Count(c, ok) == IF ok THEN [c EXCEPT !.ok = @ + 1] ELSE [c EXCEPT !.failed = @ + 1]

\* Line 136: aqmf_cache.get_value_or_guard(&self.sequence_number, None).
Start(t) ==
    /\ thr[t].pc = "start"
    /\ GuardResult(aqmf_cache) # "Wait"
    /\ IF GuardResult(aqmf_cache) = "Value"
       THEN /\ thr' = [thr EXCEPT ![t].pc = "contains", ![t].aqmf = aqmf_cache.val[1]]
            /\ UNCHANGED aqmf_cache
       ELSE /\ aqmf_cache' = GuardTake(aqmf_cache, t)
            /\ thr' = [thr EXCEPT ![t].pc = "header", ![t].ret = "aqmf"]
    /\ UNCHANGED << file, header, key_block_cache, value_block_cache, header_runs,
                    reads, evicted, ix, kb >>

\* Where a call of header() that returned Ok goes on.
AfterHeader(ret) == IF ret = "aqmf" THEN "aqmf_deser" ELSE "key_get"

\* self.header() (lines 88-89, called on lines 139 and 150): the stored
\* Header, or the start of the initialiser; a thread arriving while another
\* runs the initialiser waits.
HeaderCall(t) ==
    /\ thr[t].pc = "header"
    /\ header.state # "running"
    /\ IF header.state = "set"
       THEN /\ thr' = [thr EXCEPT ![t].pc = AfterHeader(thr[t].ret)]
            /\ UNCHANGED header
       ELSE /\ header' = HeaderRunning(t)
            /\ thr' = [thr EXCEPT ![t].pc = "header_init"]
    /\ UNCHANGED << file, aqmf_cache, key_block_cache, value_block_cache, header_runs,
                    reads, evicted, ix, kb >>

\* The initialiser of header() (lines 90-125) and get_or_try_init's end: an
\* Ok value is stored, an Err leaves the cell empty and is returned by `?`,
\* which on line 139 drops the filter guard.
HeaderInit(t) ==
    /\ thr[t].pc = "header_init"
    /\ header_runs' = Count(header_runs, HeaderInitOk(file))
    /\ IF HeaderInitOk(file)
       THEN /\ header' = HeaderStore(HeaderOf(file))
            /\ thr' = [thr EXCEPT ![t].pc = AfterHeader(thr[t].ret)]
            /\ UNCHANGED aqmf_cache
       ELSE /\ header' = HeaderEmpty
            /\ thr' = Return(t, Result("Err"))
            /\ aqmf_cache' = IF thr[t].ret = "aqmf" THEN GuardDrop(aqmf_cache)
                             ELSE aqmf_cache
    /\ UNCHANGED << file, key_block_cache, value_block_cache, reads, evicted, ix, kb >>

\* Lines 140-143: the filter section is sliced out of the mapping,
\* deserialised and inserted.
AqmfDeser(t) ==
    /\ thr[t].pc = "aqmf_deser"
    /\ IF ~InMmap(file, header.value[1].aqmf)
       THEN /\ thr' = Return(t, Result("Panic"))
            /\ aqmf_cache' = GuardDrop(aqmf_cache)
       ELSE IF ~file.aqmf.ok
       THEN /\ thr' = Return(t, Result("Err"))
            /\ aqmf_cache' = GuardDrop(aqmf_cache)
       ELSE /\ thr' = [thr EXCEPT ![t].pc = "contains", ![t].aqmf = file.aqmf.keys]
            /\ aqmf_cache' = GuardInsert(aqmf_cache, file.aqmf.keys)
    /\ UNCHANGED << file, header, key_block_cache, value_block_cache, header_runs,
                    reads, evicted, ix, kb >>

\* Mutant of FilterMiss: the early return is missing.
FilterMissNever(present) == FALSE

\* Line 147: whether lookup returns QuickFilterMiss for the answer of contains.
FilterMiss(present) == ~present

\* Lines 147-151: the filter check.
Contains(t) ==
    /\ thr[t].pc = "contains"
    /\ LET present == aqmf_contains(thr[t].aqmf, thr[t].key)
           answered == [thr EXCEPT ![t].contains = IF present THEN "present" ELSE "absent"]
       IN  thr' = IF FilterMiss(present)
                  THEN [answered EXCEPT ![t].pc = "done",
                                        ![t].result = Result("QuickFilterMiss")]
                  ELSE [answered EXCEPT ![t].pc = "header", ![t].ret = "lookup",
                                        ![t].current_block = 0]
    /\ UNCHANGED << file, header, aqmf_cache, key_block_cache, value_block_cache,
                    header_runs, reads, evicted, ix, kb >>

\* Lines 153-156: key_block_cache.get_value_or_guard(&(seq, current_block), None).
KeyGet(t) ==
    /\ thr[t].pc = "key_get"
    /\ LET b == thr[t].current_block
           e == key_block_cache[b]
       IN  /\ GuardResult(e) # "Wait"
           /\ IF GuardResult(e) = "Value"
              THEN /\ thr' = [thr EXCEPT ![t].pc = "dispatch", ![t].block = CachedBlock(e),
                                         ![t].touched = @ \cup { << "key", b >> }]
                   /\ UNCHANGED key_block_cache
              ELSE /\ key_block_cache' = [key_block_cache EXCEPT ![b] = GuardTake(e, t)]
                   /\ thr' = [thr EXCEPT ![t].pc = "key_read",
                                         ![t].touched = @ \cup { << "key", b >> }]
    /\ UNCHANGED << file, header, aqmf_cache, value_block_cache, header_runs, reads,
                    evicted, ix, kb >>

\* Lines 157-161: read_key_block, then guard.insert; an Err or a panic drops
\* the guard.
KeyRead(t) ==
    /\ thr[t].pc = "key_read"
    /\ LET b == thr[t].current_block
           r == read_key_block(file, header.value[1], b)
       IN  /\ reads' = [reads EXCEPT ![<< "key", b >>] = Count(@, r.tag = "Ok")]
           /\ IF r.tag = "Ok"
              THEN /\ key_block_cache' =
                          [key_block_cache EXCEPT ![b] = GuardInsert(@, r.buf)]
                   /\ thr' = [thr EXCEPT ![t].pc = "dispatch", ![t].block = r.buf]
              ELSE /\ key_block_cache' = [key_block_cache EXCEPT ![b] = GuardDrop(@)]
                   /\ thr' = Return(t, Result(r.tag))
    /\ UNCHANGED << file, header, aqmf_cache, value_block_cache, header_runs, evicted,
                    ix, kb >>

\* handle_key_match (lines 315-340) up to the call of lookup_value_block: the
\* value to fetch for a Normal entry, or the finished result.
MatchRes(tag, kind, block, size, position, sequence_number) ==
    [tag |-> tag, kind |-> kind, block |-> block, size |-> size,
     position |-> position, sequence_number |-> sequence_number]

handle_key_match(ty, val) ==
    CASE ty = KEY_BLOCK_ENTRY_TYPE_NORMAL ->
             LET size == read_u24(DropBytes(val, 1))
                 position == read_u32(DropBytes(val, 4))
             IN  IF Len(val) < 1 \/ size.tag # "Ok" \/ position.tag # "Ok"
                 THEN MatchRes("Err", "Value", 0, 0, 0, 0)
                 ELSE MatchRes("Ok", "Value", val[1], size.num, position.num, 0)
      [] ty = KEY_BLOCK_ENTRY_TYPE_BLOB ->
             LET sequence_number == read_u32(val)
             IN  IF sequence_number.tag # "Ok" THEN MatchRes("Err", "Blob", 0, 0, 0, 0)
                 ELSE MatchRes("Ok", "Blob", 0, 0, 0, sequence_number.num)
      [] ty = KEY_BLOCK_ENTRY_TYPE_DELETED -> MatchRes("Ok", "Deleted", 0, 0, 0, 0)
      [] OTHER -> MatchRes("Err", "Deleted", 0, 0, 0, 0)

\* Lines 167-173: what lookup does with the answer of lookup_index_block.
IndexStep(t, r) ==
    IF r.tag # "Ok" THEN Return(t, Result(r.tag))
    ELSE IF r.some THEN [thr EXCEPT ![t].pc = "key_get", ![t].current_block = r.next]
    ELSE Return(t, Result("RangeMiss"))

\* Lines 174-176 with lookup_key_block and handle_key_match, up to the call
\* of lookup_value_block.
KeyStep(t, r) ==
    IF r.tag # "Ok" THEN Return(t, Result(r.tag))
    ELSE IF ~r.hit THEN Return(t, Result("KeyMiss"))
    ELSE LET m == handle_key_match(r.ty, r.val)
         IN  IF m.tag # "Ok" THEN Return(t, Result("Err"))
             ELSE CASE m.kind = "Deleted" -> Return(t, Result("Deleted"))
                    [] m.kind = "Blob" -> Return(t, Blob(m.sequence_number))
                    [] OTHER -> [thr EXCEPT ![t].pc = "val_get", ![t].vblock = m.block,
                                            ![t].size = m.size,
                                            ![t].position = m.position]

\* Lines 164-180: the type byte of the block decides between the index
\* descent, the key search and an error.
Dispatch(t) ==
    /\ thr[t].pc = "dispatch"
    /\ LET block == thr[t].block
       IN  thr' = IF block = <<>> THEN Return(t, Result("Err"))
                  ELSE CASE block[1] = BLOCK_TYPE_INDEX ->
                                IndexStep(t, lookup_index_block(Tail(block), thr[t].key))
                         [] block[1] = BLOCK_TYPE_KEY ->
                                KeyStep(t, lookup_key_block(Tail(block), thr[t].key))
                         [] OTHER -> Return(t, Result("Err"))
    /\ UNCHANGED << file, header, aqmf_cache, key_block_cache, value_block_cache,
                    header_runs, reads, evicted, ix, kb >>

\* Mutant of ValueResult: position and size swapped in the slice.
ValueResultSwapped(buf, position, size) ==
    LET v == arc_slice(buf, size, position)
    IN  IF v.tag = "Ok" THEN Small(v.buf) ELSE Result(v.tag)

\* Lines 360-361 and 329: the value sliced out of the value block.
ValueResult(buf, position, size) ==
    LET v == arc_slice(buf, position, size)
    IN  IF v.tag = "Ok" THEN Small(v.buf) ELSE Result(v.tag)

\* Lines 350-352 (and 360 when the block is cached):
\* value_block_cache.get_value_or_guard(&(seq, block), None).
ValGet(t) ==
    /\ thr[t].pc = "val_get"
    /\ LET b == thr[t].vblock
           e == value_block_cache[b]
       IN  /\ GuardResult(e) # "Wait"
           /\ IF GuardResult(e) = "Value"
              THEN /\ thr' = [Return(t, ValueResult(CachedBlock(e), thr[t].position,
                                                    thr[t].size))
                                EXCEPT ![t].touched = @ \cup { << "value", b >> }]
                   /\ UNCHANGED value_block_cache
              ELSE /\ value_block_cache' =
                          [value_block_cache EXCEPT ![b] = GuardTake(e, t)]
                   /\ thr' = [thr EXCEPT ![t].pc = "val_read",
                                         ![t].touched = @ \cup { << "value", b >> }]
    /\ UNCHANGED << file, header, aqmf_cache, key_block_cache, header_runs, reads,
                    evicted, ix, kb >>

\* Lines 353-361: read_value_block, guard.insert, then the slice; an Err or a
\* panic of read_value_block drops the guard.
ValRead(t) ==
    /\ thr[t].pc = "val_read"
    /\ LET b == thr[t].vblock
           r == read_value_block(file, header.value[1], b)
       IN  /\ reads' = [reads EXCEPT ![<< "value", b >>] = Count(@, r.tag = "Ok")]
           /\ IF r.tag = "Ok"
              THEN /\ value_block_cache' =
                          [value_block_cache EXCEPT ![b] = GuardInsert(@, r.buf)]
                   /\ thr' = Return(t, ValueResult(r.buf, thr[t].position, thr[t].size))
              ELSE /\ value_block_cache' = [value_block_cache EXCEPT ![b] = GuardDrop(@)]
                   /\ thr' = Return(t, Result(r.tag))
    /\ UNCHANGED << file, header, aqmf_cache, key_block_cache, header_runs, evicted,
                    ix, kb >>

\* The caches' eviction policy: a present entry is removed.  Each entry is
\* evicted at most once and at most MaxEvictions entries are.
CanEvict(e, name) ==
    e.val # <<>> /\ name \notin evicted /\ Cardinality(evicted) < MaxEvictions

EvictAqmf ==
    /\ CanEvict(aqmf_cache, << "aqmf", 0 >>)
    /\ aqmf_cache' = [aqmf_cache EXCEPT !.val = <<>>]
    /\ evicted' = evicted \cup { << "aqmf", 0 >> }
    /\ UNCHANGED << file, header, key_block_cache, value_block_cache, thr, header_runs,
                    reads, ix, kb >>

EvictKeyBlock(b) ==
    /\ CanEvict(key_block_cache[b], << "key", b >>)
    /\ key_block_cache' = [key_block_cache EXCEPT ![b].val = <<>>]
    /\ evicted' = evicted \cup { << "key", b >> }
    /\ UNCHANGED << file, header, aqmf_cache, value_block_cache, thr, header_runs,
                    reads, ix, kb >>

EvictValueBlock(b) ==
    /\ CanEvict(value_block_cache[b], << "value", b >>)
    /\ value_block_cache' = [value_block_cache EXCEPT ![b].val = <<>>]
    /\ evicted' = evicted \cup { << "value", b >> }
    /\ UNCHANGED << file, header, aqmf_cache, key_block_cache, thr, header_runs,
                    reads, ix, kb >>

\* ------------------------------------------------------------------------
\* Specifications
\* ------------------------------------------------------------------------

\* After open() (lines 78-86): the header cell is empty; the caches handed to
\* lookup hold nothing of this file yet.  The threads run the same code and
\* differ in their keys only, so the keys are taken in ascending order of the
\* thread ids.
LookupInit ==
    /\ file \in Files
    /\ header = HeaderEmpty
    /\ aqmf_cache = EmptyEntry
    /\ key_block_cache = [b \in BlockIds(file) |-> EmptyEntry]
    /\ value_block_cache = [b \in BlockIds(file) |-> EmptyEntry]
    /\ thr \in [Threads -> { InitThread(k) : k \in LookupKeys }]
    /\ \A t \in 1..(NumThreads - 1) : cmp(thr[t].key, thr[t + 1].key) # "Greater"
    /\ header_runs = [ok |-> 0, failed |-> 0]
    /\ reads = [c \in {"key", "value"} \X BlockIds(file) |-> [ok |-> 0, failed |-> 0]]
    /\ evicted = {}

\* No lookup runs: the state of the handle while a search is run on its own.
LookupIdle ==
    /\ file = GoodFile
    /\ header = HeaderEmpty
    /\ aqmf_cache = EmptyEntry
    /\ key_block_cache = [b \in BlockIds(GoodFile) |-> EmptyEntry]
    /\ value_block_cache = [b \in BlockIds(GoodFile) |-> EmptyEntry]
    /\ thr = [t \in Threads |-> [InitThread(<<>>) EXCEPT !.pc = "done"]]
    /\ header_runs = [ok |-> 0, failed |-> 0]
    /\ reads = [c \in {"key", "value"} \X BlockIds(GoodFile) |-> [ok |-> 0, failed |-> 0]]
    /\ evicted = {}

Init == LookupInit /\ ix = IxIdle /\ kb = KbIdle

\* After open(), with one thread about to call lookup and the others not
\* calling it.
SoloInit ==
    /\ file \in SoloFiles
    /\ header = HeaderEmpty
    /\ aqmf_cache = EmptyEntry
    /\ key_block_cache = [b \in BlockIds(file) |-> EmptyEntry]
    /\ value_block_cache = [b \in BlockIds(file) |-> EmptyEntry]
    /\ \E k \in SoloKeys :
           thr = [t \in Threads |-> IF t = 1 THEN InitThread(k)
                                    ELSE [InitThread(<<>>) EXCEPT !.pc = "done"]]
    /\ header_runs = [ok |-> 0, failed |-> 0]
    /\ reads = [c \in {"key", "value"} \X BlockIds(file) |-> [ok |-> 0, failed |-> 0]]
    /\ evicted = {}
    /\ ix = IxIdle
    /\ kb = KbIdle

LookupStep(t) ==
    \/ Start(t)
    \/ HeaderCall(t)
    \/ HeaderInit(t)
    \/ AqmfDeser(t)
    \/ Contains(t)
    \/ KeyGet(t)
    \/ KeyRead(t)
    \/ Dispatch(t)
    \/ ValGet(t)
    \/ ValRead(t)

Evict ==
    \/ EvictAqmf
    \/ \E b \in BlockIds(file) : EvictKeyBlock(b)
    \/ \E b \in BlockIds(file) : EvictValueBlock(b)

Next == (\E t \in Threads : LookupStep(t)) \/ Evict

\* Concurrent lookups on one handle.
Spec == Init /\ [][Next]_vars

\* The same under fair scheduling: a thread that can take a step of its
\* lookup eventually does.
FairSpec == Spec /\ \A t \in Threads : WF_vars(LookupStep(t))

\* Lookups that meet in every cache on their way: the same key, whose entry
\* has an inline value, in a file that is sound or in which one of the three
\* computations fails.
WaitFiles == { GoodFile, BadFilterFile, CorruptRootFile, CorruptValuesFile }
WaitKeys == { << 5 >> }

WaitInit ==
    /\ LookupInit
    /\ file \in WaitFiles
    /\ \A t \in Threads : thr[t].key \in WaitKeys
    /\ ix = IxIdle
    /\ kb = KbIdle

\* The steps of a lookup that ask a cache for an entry or run a computation
\* under a guard: every step of lookup but the search inside a block.
CacheStep(t) ==
    \/ Start(t)
    \/ HeaderCall(t)
    \/ HeaderInit(t)
    \/ AqmfDeser(t)
    \/ Contains(t)
    \/ KeyGet(t)
    \/ KeyRead(t)
    \/ ValGet(t)
    \/ ValRead(t)

\* Concurrent lookups that meet in the caches.  A thread that can take a
\* step at a cache eventually takes it; nothing is assumed about how long a
\* thread takes to search a block it has in hand.
WaitSpec == WaitInit /\ [][Next]_vars /\ \A t \in Threads : WF_vars(CacheStep(t))

\* One lookup on one handle, over more files and keys.
SoloSpec == SoloInit /\ [][Next]_vars

\* lookup_index_block on every generated index block and key.
IndexInit == LookupIdle /\ (\E n \in 1..MaxSeps : ix \in IxInputs(n)) /\ kb = KbIdle
IndexSpec == IndexInit /\ [][IndexLookup]_vars

\* lookup_index_block on index blocks whose separators are in any order.
PermInit == LookupIdle /\ (\E n \in 2..MaxSeps : ix \in PxInputs(n)) /\ kb = KbIdle
PermSpec == PermInit /\ [][IndexLookup]_vars

\* get_key and get_block on every entry of every generated index block.
DecodeInit == LookupIdle /\ (\E n \in 1..MaxSeps : ix \in DxInputs(n)) /\ kb = KbIdle
DecodeSpec == DecodeInit /\ [][IndexDecode]_vars

\* The search of lookup_key_block on every generated key block and key.
KeyInit == LookupIdle /\ ix = IxIdle /\ (\E n \in 0..MaxEntries : kb \in KbInputs(n))
KeySpec == KeyInit /\ [][KeyLookup]_vars

\* ------------------------------------------------------------------------
\* Properties of lookup_index_block (IndexSpec)
\* ------------------------------------------------------------------------

IxN == Len(ix.seps)

\* Separator i and the child byte of position i, counted from 0.
Sep(i) == ix.seps[i + 1]
DescendsTo(i) == ix.res = IndexRes("Ok", TRUE, ChildByte(i))

\* C3 as stated: over n >= 2 sorted separators, a target key equal to
\* separator i descends into child i for every i < n - 1, and a target key
\* equal to the last separator descends into child n - 2.
C3_EqualDescendsSame ==
    (ix.done /\ IxN >= 2 /\ StrictlySorted(ix.seps)) =>
        \A i \in 0..(IxN - 1) :
            ix.key = Sep(i) => DescendsTo(IF i < IxN - 1 THEN i ELSE IxN - 2)

\* C3 as amended: over n >= 2 sorted separators, a target key equal to
\* separator 0 descends into child 0, and a target key equal to a later
\* separator descends into the child before it: child i - 1 for some i >= 1
\* with separator i equal to the key, which over strictly ascending
\* separators is child i - 1 for the one such i, the last separator
\* (i = n - 1, child n - 2) included.
C3_EqualDescendsBefore ==
    (ix.done /\ IxN >= 2 /\ Sorted(ix.seps)) =>
        /\ ix.key = Sep(0) => DescendsTo(0)
        /\ (ix.key # Sep(0) /\ \E i \in 1..(IxN - 1) : ix.key = Sep(i)) =>
               \E i \in 1..(IxN - 1) : ix.key = Sep(i) /\ DescendsTo(i - 1)
        /\ StrictlySorted(ix.seps) =>
               \A i \in 1..(IxN - 1) : ix.key = Sep(i) => DescendsTo(i - 1)

\* C3's case: the key equals an interior separator, found by the binary
\* search, and the lookup descended into the child before it.
C3_Witness ==
    /\ ix.done /\ IxN = 4 /\ StrictlySorted(ix.seps)
    /\ ix.key = Sep(2)
    /\ DescendsTo(1)

\* C9: over n >= 2 sorted separators, a target key strictly between
\* separator i and separator i + 1 descends into child i.
C9_BetweenDescends ==
    (ix.done /\ IxN >= 2 /\ Sorted(ix.seps)) =>
        \A i \in 0..(IxN - 2) :
            (cmp(Sep(i), ix.key) = "Less" /\ cmp(ix.key, Sep(i + 1)) = "Less") =>
                DescendsTo(i)

\* C9's case: a key strictly between the two interior separators of a block
\* of four went to child 1.
C9_Witness ==
    /\ ix.done /\ IxN = 4
    /\ cmp(Sep(1), ix.key) = "Less" /\ cmp(ix.key, Sep(2)) = "Less"
    /\ DescendsTo(1)

\* ------------------------------------------------------------------------
\* Properties of the key-block search (KeySpec)
\* ------------------------------------------------------------------------

\* The trailer get_entry hands out for an entry: a Deleted entry has none and
\* its whole span, the key, is passed on.
TrailerOf(e) == IF e.ty = KEY_BLOCK_ENTRY_TYPE_DELETED THEN e.key ELSE e.val

\* C4: on a key block of n >= 0 entries with strictly ascending keys the
\* search reports an exact match, dispatching on the type and trailer of an
\* entry whose key equals the target, if and only if such an entry exists;
\* otherwise it ends in KeyMiss.
C4_ExactMatchIff ==
    kb.done =>
        /\ kb.res.tag = "Ok"
        /\ kb.res.hit <=> \E i \in 1..Len(kb.ents) : kb.ents[i].key = kb.key
        /\ kb.res.hit =>
               \E i \in 1..Len(kb.ents) :
                   /\ kb.ents[i].key = kb.key
                   /\ kb.res.ty = kb.ents[i].ty
                   /\ kb.res.val = TrailerOf(kb.ents[i])

\* C4's case: the last of three entries matched.
C4_Witness ==
    /\ kb.done /\ Len(kb.ents) = 3
    /\ kb.ents[3].key = kb.key
    /\ kb.res.hit

\* ------------------------------------------------------------------------
\* Properties of concurrent lookups (Spec, FairSpec)
\* ------------------------------------------------------------------------

\* Runs of read_block for a block cache entry so far.
ReadRuns(c) == reads[c].ok + reads[c].failed

\* The threads that requested block cache entry c and were given its value
\* or its guard.
Requested(c) == { t \in Threads : c \in thr[t].touched }

\* C1 as stated: when two or more threads need the same block cache entry,
\* never cached before (and not evicted since), read_block runs exactly once
\* in total for it.
C1_ReadOnceAlways ==
    \A c \in DOMAIN reads :
        (c \notin evicted /\ Cardinality(Requested(c)) >= 2) => ReadRuns(c) = 1

\* C1 as amended: for a block cache entry never cached before and not evicted
\* while the lookups run, a read_block that succeeds is the only run of
\* read_block for it, every thread that goes on with the block holds the
\* buffer that run produced, and every value returned is cut from it; a
\* read_block that fails publishes nothing and is run again by each thread
\* that requests the entry, at most once per thread.
C1_ReadOnceIfOk ==
    \A c \in DOMAIN reads :
        c \notin evicted =>
            /\ reads[c].ok <= 1
            /\ reads[c].ok = 1 => reads[c].failed = 0
            /\ reads[c].failed <= Cardinality(Requested(c))
            /\ \A t \in Threads :
                   /\ (thr[t].pc = "dispatch" /\ c = << "key", thr[t].current_block >>) =>
                          /\ reads[c].ok = 1
                          /\ key_block_cache[c[2]].val = << thr[t].block >>
                   /\ (thr[t].result.kind = "Small" /\ c = << "value", thr[t].vblock >>) =>
                          /\ reads[c].ok = 1
                          /\ value_block_cache[c[2]].val # <<>>
                          /\ thr[t].result =
                                 ValueResult(value_block_cache[c[2]].val[1],
                                             thr[t].position, thr[t].size)

\* C1's case: two threads needed key block 0 and one value block, neither
\* evicted; each was read once and both threads ended with a value.
C1_Witness ==
    \E t1, t2 \in Threads :
        /\ t1 # t2
        /\ evicted = {}
        /\ thr[t1].result.kind = "Small" /\ thr[t2].result.kind = "Small"
        /\ thr[t1].vblock = thr[t2].vblock
        /\ reads[<< "key", 0 >>] = [ok |-> 1, failed |-> 0]
        /\ reads[<< "value", thr[t1].vblock >>] = [ok |-> 1, failed |-> 0]

\* The threads inside the compute branch of a cache entry: between receiving
\* its guard and inserting or dropping it.
Computing(c) ==
    { t \in Threads :
        CASE c[1] = "aqmf" -> \/ thr[t].pc = "aqmf_deser"
                              \/ thr[t].pc \in {"header", "header_init"} /\ thr[t].ret = "aqmf"
          [] c[1] = "key" -> thr[t].pc = "key_read" /\ thr[t].current_block = c[2]
          [] OTHER -> thr[t].pc = "val_read" /\ thr[t].vblock = c[2] }

\* The entry of a cache key.
EntryOf(c) ==
    CASE c[1] = "aqmf" -> aqmf_cache
      [] c[1] = "key" -> key_block_cache[c[2]]
      [] OTHER -> value_block_cache[c[2]]

\* C2: for each of the three caches and each cache key at most one thread is
\* inside the compute branch, it is the holder of the guard, and no value is
\* present while it computes, so that every other thread requesting the key
\* waits or has received the value.
C2_OneComputation ==
    \A c \in CacheEntries(file) :
        /\ Cardinality(Computing(c)) <= 1
        /\ Computing(c) = { t \in Threads : EntryOf(c).guard = t }
        /\ Computing(c) # {} => EntryOf(c).val = <<>>

\* C2's case: one thread computes key block 0 while another requests it.
C2_Witness ==
    \E t1, t2 \in Threads :
        /\ t1 # t2
        /\ thr[t1].pc = "key_read" /\ thr[t1].current_block = 0
        /\ thr[t2].pc = "key_get" /\ thr[t2].current_block = 0

\* C5: every lookup call terminates, for every file contents.
C5_LookupTerminates == <>(\A t \in Threads : thr[t].pc = "done")

\* C6: a lookup whose filter check answered "absent" has returned
\* QuickFilterMiss without requesting any block cache entry (so without a run
\* of read_block); a lookup that has requested a block cache entry had its
\* filter check answer "possibly present" before; and the answer is the
\* file's filter's.
C6_FilterMissReadsNothing ==
    \A t \in Threads :
        /\ thr[t].contains = "absent" =>
               /\ thr[t].pc = "done"
               /\ thr[t].result = Result("QuickFilterMiss")
               /\ thr[t].touched = {}
        /\ thr[t].touched # {} => thr[t].contains = "present"
        /\ thr[t].contains # "unknown" =>
               (thr[t].contains = "present" <=> thr[t].key \in file.aqmf.keys)

\* C6's case: one lookup returned QuickFilterMiss while another went on to
\* the blocks.
C6_Witness ==
    \E t1, t2 \in Threads :
        /\ thr[t1].result = Result("QuickFilterMiss")
        /\ thr[t1].touched = {}
        /\ thr[t2].touched # {}

\* C7: for every content of the mapped file, lookup ends in a LookupResult or
\* an error value and never panics.
C7_NeverPanics == \A t \in Threads : thr[t].result.kind # "Panic"

\* C8 as stated: for one handle and any number of header() calls the
\* header-parsing computation runs exactly once.
C8_HeaderParsedOnce == header_runs.ok + header_runs.failed <= 1

\* C8 as amended: the header-parsing computation succeeds at most once per
\* handle; once it has, the Header it built is stored and every later call
\* reuses it, so all callers see the same Header; while it fails (the magic
\* number differs) nothing is stored and each call runs it again.
C8_HeaderStoredOnce ==
    /\ header_runs.ok <= 1
    /\ header.state = "set" <=> header_runs.ok = 1
    /\ header.state = "set" => header.value = << HeaderOf(file) >>
    /\ HeaderInitOk(file) => header_runs.failed = 0
    /\ ~HeaderInitOk(file) => header_runs.ok = 0 /\ header.value = <<>>

\* C8's case: two lookups that each called header() twice have returned, and
\* the computation ran once.
C8_Witness ==
    \E t1, t2 \in Threads :
        /\ t1 # t2
        /\ thr[t1].pc = "done" /\ thr[t1].contains = "present"
        /\ thr[t2].pc = "done" /\ thr[t2].contains = "present"
        /\ header_runs = [ok |-> 1, failed |-> 0]

\* The first and last separator of an index block (with its type byte), as
\* lookup_index_block reads them on lines 210 and 222.
IndexEnds(block) ==
    LET body == Tail(block)
        cnt == read_u16(body)
        start_entries == (cnt.num - 1) * 2
        offsets == SubSeq(body, 3, 2 + start_entries)
        entries == DropBytes(body, 2 + start_entries)
        left == get_key(offsets, entries, cnt.num, 0)
        right == get_key(offsets, entries, cnt.num, cnt.num - 1)
    IN  IF cnt.tag # "Ok" \/ cnt.num = 0 \/ 2 + start_entries > Len(body)
        THEN [ok |-> FALSE, left |-> <<>>, right |-> <<>>]
        ELSE [ok |-> left.tag = "Ok" /\ right.tag = "Ok",
              left |-> left.key, right |-> right.key]

\* The key of thread t lies before the first or after the last separator of
\* the index block the thread holds (first separator <= last separator).
KeyOutside(t) ==
    /\ thr[t].block # <<>>
    /\ thr[t].block[1] = BLOCK_TYPE_INDEX
    /\ LET e == IndexEnds(thr[t].block)
       IN  /\ e.ok
           /\ cmp(e.left, e.right) # "Greater"
           /\ cmp(thr[t].key, e.left) = "Less" \/ cmp(e.right, thr[t].key) = "Less"

\* C10: a lookup that holds an index block whose first separator is greater
\* than its key, or whose last separator is less, gets no child from
\* lookup_index_block: its next step returns RangeMiss, requests no cache
\* entry and reads no block.
C10_OutsideIsRangeMiss ==
    [][\A t \in Threads :
          (thr[t].pc = "dispatch" /\ KeyOutside(t) /\ thr'[t] # thr[t]) =>
              /\ thr'[t] = [thr[t] EXCEPT !.pc = "done", !.result = Result("RangeMiss")]
              /\ UNCHANGED << aqmf_cache, key_block_cache, value_block_cache, reads >>]_vars

\* C10's case: one lookup with a key before the first separator and one with
\* a key after the last separator have both returned RangeMiss.
C10_Witness ==
    \E t1, t2 \in Threads :
        /\ thr[t1].pc = "done" /\ thr[t1].result = Result("RangeMiss") /\ KeyOutside(t1)
        /\ cmp(thr[t1].key, IndexEnds(thr[t1].block).left) = "Less"
        /\ thr[t2].pc = "done" /\ thr[t2].result = Result("RangeMiss") /\ KeyOutside(t2)
        /\ cmp(IndexEnds(thr[t2].block).right, thr[t2].key) = "Less"

\* ------------------------------------------------------------------------
\* Properties of a single lookup (SoloSpec)
\* ------------------------------------------------------------------------

\* The key block thread t dispatched on last, searched for its key.
KeyMatch(t) == lookup_key_block(Tail(thr[t].block), thr[t].key)

\* Thread t has returned from a key block whose search found its key.
MatchedKey(t) ==
    /\ thr[t].pc = "done"
    /\ thr[t].block # <<>>
    /\ thr[t].block[1] = BLOCK_TYPE_KEY
    /\ KeyMatch(t).tag = "Ok"
    /\ KeyMatch(t).hit

\* Raw block b of the file holds a frame that decompresses with dictionary d
\* to exactly the number of bytes the block declares.
WellFormedBlock(f, b, d) ==
    /\ b < f.block_count
    /\ f.blocks[b + 1].frame[d].ok
    /\ Len(f.blocks[b + 1].frame[d].data) = f.blocks[b + 1].uncompressed_length

\* C11: when the key-block search finds an exact match the result follows
\* the entry's type tag.  Normal with trailer (b, s, p): Small with bytes
\* [p, p + s) of block b decompressed with the value dictionary, requested
\* from the value-block cache (for a block b that decompresses to its
\* declared length and holds that range).  Blob: Blob with the 4-byte
\* big-endian trailer as sequence number.  Deleted: Deleted.
C11_MatchByType ==
    \A t \in Threads :
        MatchedKey(t) =>
            LET ty == KeyMatch(t).ty
                val == KeyMatch(t).val
            IN  /\ ty \in { KEY_BLOCK_ENTRY_TYPE_NORMAL, KEY_BLOCK_ENTRY_TYPE_BLOB,
                            KEY_BLOCK_ENTRY_TYPE_DELETED }
                /\ ty = KEY_BLOCK_ENTRY_TYPE_NORMAL =>
                       LET b == val[1]
                           s == val[2] * 65536 + val[3] * 256 + val[4]
                           p == val[5] * 16777216 + val[6] * 65536 + val[7] * 256 + val[8]
                       IN  (WellFormedBlock(file, b, "value")
                              /\ p + s <= file.blocks[b + 1].uncompressed_length) =>
                               /\ thr[t].result =
                                      Small(SubSeq(file.blocks[b + 1].frame["value"].data,
                                                   p + 1, p + s))
                               /\ << "value", b >> \in thr[t].touched
                /\ ty = KEY_BLOCK_ENTRY_TYPE_BLOB =>
                       thr[t].result =
                           Blob(val[1] * 16777216 + val[2] * 65536 + val[3] * 256 + val[4])
                /\ ty = KEY_BLOCK_ENTRY_TYPE_DELETED => thr[t].result = Result("Deleted")

\* C11's case: the lookup of key 2, a Normal entry with two value bytes at
\* position 0 of value block 3, returned them.
C11_Witness ==
    /\ MatchedKey(1)
    /\ KeyMatch(1).ty = KEY_BLOCK_ENTRY_TYPE_NORMAL
    /\ thr[1].key = << 2 >>
    /\ thr[1].result = Small(<< 10, 11 >>)
    /\ reads[<< "value", 3 >>].ok = 1

\* The frame of raw block b is corrupt under dictionary d or decompresses to
\* a number of bytes other than the block declares.
MismatchedBlock(f, b, d) ==
    \/ ~f.blocks[b + 1].frame[d].ok
    \/ Len(f.blocks[b + 1].frame[d].data) # f.blocks[b + 1].uncompressed_length

\* The block cache entry c = << path, b >> of the key or the value path.
BlockEntry(c) == IF c[1] = "key" THEN key_block_cache[c[2]] ELSE value_block_cache[c[2]]

\* C12: if the frame of a block is corrupt or decompresses to a number of
\* bytes different from the declared uncompressed length, shorter or longer,
\* read_block fails, no buffer is published for the block, and the lookup
\* that read it returns the error.
C12_MismatchFails ==
    \A c \in DOMAIN reads :
        MismatchedBlock(file, c[2], c[1]) =>
            /\ reads[c].ok = 0
            /\ BlockEntry(c).val = <<>>
            /\ \A t \in Threads :
                   (thr[t].pc = "done" /\ c \in thr[t].touched
                      /\ (c[1] = "value" \/ thr[t].current_block = c[2])) =>
                       thr[t].result = Result("Err")

\* ------------------------------------------------------------------------
\* lookup with all three caches empty, as a function of the file and the key
\* ------------------------------------------------------------------------

\* lookup_value_block (lines 342-362) through its Guard arm.
value_uncached(f, h, block, position, size) ==
    LET r == read_value_block(f, h, block)
    IN  IF r.tag = "Ok" THEN ValueResult(r.buf, position, size) ELSE Result(r.tag)

\* The loop of lookup (lines 152-181) through the Guard arm of every cache
\* request.  A descent that returns visits no block twice, so `hops` starts
\* at the number of blocks; Result("None") stands for a descent that does not
\* return.
RECURSIVE descend_uncached(_, _, _, _)
descend_uncached(f, key, current_block, hops) ==
    LET h == HeaderOf(f)
        r == read_key_block(f, h, current_block)
    IN  IF hops = 0 THEN Result("None")
        ELSE IF r.tag # "Ok" THEN Result(r.tag)
        ELSE IF r.buf = <<>> THEN Result("Err")
        ELSE CASE r.buf[1] = BLOCK_TYPE_INDEX ->
                      LET i == lookup_index_block(Tail(r.buf), key)
                      IN  IF i.tag # "Ok" THEN Result(i.tag)
                          ELSE IF i.some THEN descend_uncached(f, key, i.next, hops - 1)
                          ELSE Result("RangeMiss")
               [] r.buf[1] = BLOCK_TYPE_KEY ->
                      LET k == lookup_key_block(Tail(r.buf), key)
                          m == handle_key_match(k.ty, k.val)
                      IN  IF k.tag # "Ok" THEN Result(k.tag)
                          ELSE IF ~k.hit THEN Result("KeyMiss")
                          ELSE IF m.tag # "Ok" THEN Result("Err")
                          ELSE CASE m.kind = "Deleted" -> Result("Deleted")
                                 [] m.kind = "Blob" -> Blob(m.sequence_number)
                                 [] OTHER -> value_uncached(f, h, m.block, m.position,
                                                            m.size)
               [] OTHER -> Result("Err")

\* lookup (lines 129-182) through the Guard arm of every cache request.
lookup_uncached(f, key) ==
    IF ~HeaderInitOk(f) THEN Result("Err")
    ELSE IF ~InMmap(f, HeaderOf(f).aqmf) THEN Result("Panic")
    ELSE IF ~f.aqmf.ok THEN Result("Err")
    ELSE IF FilterMiss(aqmf_contains(f.aqmf.keys, key)) THEN Result("QuickFilterMiss")
    ELSE descend_uncached(f, key, 0, f.block_count)

\* The outcome of lookup with empty caches, for every file and key of the
\* concurrent lookups.
UncachedOutcome == [f \in Files |-> [k \in LookupKeys |-> lookup_uncached(f, k)]]

\* C13: for a fixed file and key, every lookup that returns, from whatever
\* state of the three caches (empty, populated by earlier or concurrent
\* lookups, or with entries evicted and recomputed), returns the outcome of
\* the lookup with empty caches: the same variant with the same value bytes
\* or sequence number, or an error.
C13_SameOutcome ==
    \A t \in Threads :
        thr[t].pc = "done" => thr[t].result = UncachedOutcome[file][thr[t].key]

\* C13's case: two lookups of one key returned the same value; a block they
\* needed was evicted in between and decompressed a second time.
C13_Witness ==
    \E t1, t2 \in Threads :
        /\ t1 # t2
        /\ thr[t1].key = thr[t2].key
        /\ thr[t1].pc = "done" /\ thr[t2].pc = "done"
        /\ thr[t1].result.kind = "Small"
        /\ thr[t2].result = thr[t1].result
        /\ \E c \in evicted : c[1] # "aqmf" /\ reads[c].ok = 2

\* ------------------------------------------------------------------------
\* Further properties of concurrent lookups (Spec, FairSpec)
\* ------------------------------------------------------------------------

\* C14: for a file whose first four bytes are not the magic number, open
\* succeeds without running the header computation, every lookup that
\* returns has failed with an error, no Header is ever stored, and nothing of
\* the file reaches a cache.
C14_BadMagicAlwaysFails ==
    file.magic # MAGIC =>
        /\ (\A t \in Threads : thr[t].pc = "start") => header_runs = [ok |-> 0, failed |-> 0]
        /\ header_runs.ok = 0
        /\ header.state # "set" /\ header.value = <<>>
        /\ \A t \in Threads : thr[t].pc = "done" => thr[t].result = Result("Err")
        /\ aqmf_cache.val = <<>>
        /\ \A c \in DOMAIN reads : ReadRuns(c) = 0 /\ BlockEntry(c).val = <<>>

\* C14's case: every thread has looked up a key in a file with a wrong magic
\* number, each ran the header computation and failed.
C14_Witness ==
    /\ file.magic # MAGIC
    /\ \A t \in Threads : thr[t].pc = "done" /\ thr[t].result = Result("Err")
    /\ header_runs.failed = NumThreads

\* ------------------------------------------------------------------------
\* Properties of the index block decoding (DecodeSpec)
\* ------------------------------------------------------------------------

\* get_key decoded position i (from 0) as exactly `key`.
DecodedKey(i, key) == ix.keys[i] = [tag |-> "Ok", key |-> key]

\* get_block decoded position i (from 0) as the child byte stored there.
DecodedChild(i) == ix.blocks[i] = [tag |-> "Ok", byte |-> ChildByte(i)]

\* C15 as stated: for an index block of n entries, each separator key bytes
\* followed by one child byte, with n - 1 cumulative end offsets, separator i
\* is decoded as exactly the key bytes of entry i and child i as its
\* trailing byte, for every i in 0..n-1, the last entry included.
C15_DecodesEveryEntry ==
    (ix.done /\ ix.trailing) =>
        \A i \in 0..(IxN - 1) : DecodedKey(i, Sep(i)) /\ DecodedChild(i)

\* C15 as amended: separator i is decoded as exactly the key bytes of entry
\* i, and child i as its trailing byte, for every entry but the last
\* (i in 0..n-2).  The last separator is decoded as all bytes from the last
\* offset to the end of the block: exactly the key bytes when the last entry
\* has no child byte, the key bytes and the child byte when it has one; and
\* no child is decoded at position n-1.
C15_DecodesAllButLast ==
    ix.done =>
        /\ \A i \in 0..(IxN - 2) : DecodedKey(i, Sep(i)) /\ DecodedChild(i)
        /\ DecodedKey(IxN - 1, IF ix.trailing THEN Sep(IxN - 1) \o << ChildByte(IxN - 1) >>
                               ELSE Sep(IxN - 1))
        /\ ix.blocks[IxN - 1].tag # "Ok"

\* C15's case: four entries, the last without a child byte, all decoded.
C15_Witness ==
    /\ ix.done /\ ~ix.trailing /\ IxN = 4
    /\ DecodedKey(3, Sep(3))
    /\ DecodedChild(2)
    /\ Sep(2) # <<>>

\* The positions (from 0) a binary search for k over the ascending key list
\* examines between l and r when nothing stops it before it ends.
RECURSIVE Probed(_, _, _, _)
Probed(keys, k, l, r) ==
    IF l >= r THEN {}
    ELSE LET m == (l + r) \div 2
         IN  { m } \cup (CASE cmp(k, keys[m + 1]) = "Less" -> Probed(keys, k, l, m)
                           [] cmp(k, keys[m + 1]) = "Equal" -> {}
                           [] OTHER -> Probed(keys, k, m + 1, r))

\* The search for k in the key block with type tags tys examines an entry
\* whose type tag is unknown.
ProbesUnknown(tys, k) ==
    \E m \in Probed([i \in 1..3 |-> TypedEntries(tys)[i].key], k, 0, 3) :
        tys[m + 1] = UnknownEntryType

\* C16: a block of the key path whose first byte is neither 0 nor 1 makes
\* lookup fail with an error; and a key-block search that examines an entry
\* whose type tag is outside {0, 1, 2} makes lookup fail with an error, also
\* when that entry's key is not the target, while a search that examines no
\* such entry ends in its LookupResult.
C16_UnknownTagsFail ==
    \A t \in Threads :
        (thr[t].pc = "done" /\ thr[t].block # <<>>) =>
            /\ thr[t].block[1] \notin { BLOCK_TYPE_INDEX, BLOCK_TYPE_KEY } =>
                   thr[t].result = Result("Err")
            /\ \A tys \in EntryTypeLists :
                   file = TypedLeafFile(tys) =>
                       IF ProbesUnknown(tys, thr[t].key)
                       THEN thr[t].result = Result("Err")
                       ELSE thr[t].result.kind \in { "KeyMiss", "Deleted" }

\* C16's case: the search for key 1 examined the entry of key 2, whose type
\* tag is unknown, and the lookup failed.
C16_Witness ==
    /\ file = TypedLeafFile(<< UnknownEntryType, KEY_BLOCK_ENTRY_TYPE_DELETED,
                               KEY_BLOCK_ENTRY_TYPE_DELETED >>)
    /\ thr[1].key = << 1 >>
    /\ thr[1].pc = "done"
    /\ thr[1].block # <<>>
    /\ thr[1].result = Result("Err")

\* The complete decompression of raw block b of the file with dictionary d.
Decompressed(f, b, d) == f.blocks[b + 1].frame[d].data

\* C17: each entry stored in the key-block cache under block index b is the
\* complete decompression of raw block b with the key dictionary, each entry
\* stored in the value-block cache that with the value dictionary; an entry
\* is stored only after a read_block that succeeded; a lookup on the key path
\* holds the key-dictionary decompression of its current block, and a
\* returned value is cut from the value-dictionary decompression of its value
\* block.
C17_CachesHoldOwnDecompression ==
    /\ \A c \in DOMAIN reads :
           BlockEntry(c).val # <<>> =>
               /\ WellFormedBlock(file, c[2], c[1])
               /\ BlockEntry(c).val = << Decompressed(file, c[2], c[1]) >>
               /\ reads[c].ok >= 1
    /\ \A t \in Threads :
           /\ thr[t].pc = "dispatch" =>
                  thr[t].block = Decompressed(file, thr[t].current_block, "key")
           /\ thr[t].result.kind = "Small" =>
                  thr[t].result.value =
                      SubSeq(Decompressed(file, thr[t].vblock, "value"),
                             thr[t].position + 1, thr[t].position + thr[t].size)

\* Thread t is about to request a cache entry whose computation is in flight
\* in another thread: get_value_or_guard blocks.
CacheWait(t) ==
    CASE thr[t].pc = "start" -> GuardResult(aqmf_cache) = "Wait"
      [] thr[t].pc = "key_get" ->
             GuardResult(key_block_cache[thr[t].current_block]) = "Wait"
      [] thr[t].pc = "val_get" -> GuardResult(value_block_cache[thr[t].vblock]) = "Wait"
      [] OTHER -> FALSE

\* Thread t is past a cache request: it was given the value or the guard.
Served(t) == thr[t].pc \notin { "start", "key_get", "val_get" }

\* C18: under fair scheduling every thread waiting on an in-flight
\* computation for a cache key eventually proceeds, with the inserted value
\* or, when the computing thread failed and released its guard, with a value
\* or as the computer of that key itself.
C18_WaitersProceed == \A t \in Threads : CacheWait(t) ~> Served(t)

\* C18's case: a thread waited for a key block whose read_block failed in
\* the other thread, and then ran read_block itself.
C18_Witness ==
    \E t1, t2 \in Threads :
        /\ t1 # t2
        /\ thr[t1].pc = "done" /\ thr[t1].result = Result("Err")
        /\ << "key", 0 >> \in thr[t1].touched
        /\ thr[t2].pc = "key_read" /\ thr[t2].current_block = 0
        /\ reads[<< "key", 0 >>] = [ok |-> 0, failed |-> 1]


\* ------------------------------------------------------------------------
\* Properties of lookup_index_block on unordered separators (PermSpec)
\* ------------------------------------------------------------------------

\* The two boundary checks passed without returning: the key lies strictly
\* between the first and the last separator.
InsideBounds ==
    /\ cmp(Sep(0), ix.key) = "Less"
    /\ cmp(ix.key, Sep(IxN - 1)) = "Less"

\* C19: with n >= 2 separators and first separator < key < last separator,
\* whatever the order of the separators in between, the binary search ends
\* in Ok(Some(child)) with the child byte of a position in 0..n-2: neither
\* m - 1 nor l - 1 leaves the range of the stored child bytes.
C19_ChildInRange ==
    (ix.done /\ IxN >= 2 /\ InsideBounds) =>
        /\ ix.res.tag = "Ok"
        /\ ix.res.some
        /\ \E i \in 0..(IxN - 2) : ix.res.next = ChildByte(i)

\* C19's case: four separators with the two interior ones in descending
\* order and a key inside the bounds that equals neither of them; the search
\* ran to its end.
C19_Witness ==
    /\ ix.done /\ IxN = 4 /\ InsideBounds
    /\ cmp(Sep(1), Sep(2)) = "Greater"
    /\ \A i \in 0..3 : ix.key # Sep(i)
    /\ ix.res.tag = "Ok" /\ ix.res.some


\* ------------------------------------------------------------------------
\* Guards held by a lookup (Spec)
\* ------------------------------------------------------------------------

\* The cache keys whose guard thread t holds.
Holds(t) ==
    (IF aqmf_cache.guard = t THEN { << "aqmf", 0 >> } ELSE {})
        \cup { << "key", b >> : b \in { x \in BlockIds(file) : key_block_cache[x].guard = t } }
        \cup { << "value", b >> : b \in { x \in BlockIds(file) : value_block_cache[x].guard = t } }

\* The cache key whose computation thread t is running, by its position in
\* lookup: between receiving a guard and guard.insert or the guard's drop.
Computes(t) ==
    CASE thr[t].pc \in { "header", "header_init" } /\ thr[t].ret = "aqmf" -> { << "aqmf", 0 >> }
      [] thr[t].pc = "aqmf_deser" -> { << "aqmf", 0 >> }
      [] thr[t].pc = "key_read" -> { << "key", thr[t].current_block >> }
      [] thr[t].pc = "val_read" -> { << "value", thr[t].vblock >> }
      [] OTHER -> {}

\* Thread t cannot take a step: it waits for a cache entry in flight or for
\* the header initialiser running in another thread.
Blocked(t) ==
    \/ CacheWait(t)
    \/ thr[t].pc = "header" /\ header.state = "running"

\* C20: a thread holds the guard of exactly the one computation it is
\* running and of nothing else, so never more than one guard and none at a
\* cache request; hence among lookups that have not returned there is always
\* one that is not blocked.
C20_OneGuardNoDeadlock ==
    /\ \A t \in Threads :
           /\ Holds(t) = Computes(t)
           /\ Cardinality(Holds(t)) <= 1
           /\ thr[t].pc \in { "start", "key_get", "val_get" } => Holds(t) = {}
    /\ (\E t \in Threads : thr[t].pc # "done") =>
           \E t \in Threads : thr[t].pc # "done" /\ ~Blocked(t)

\* C20's case: one thread reads a key block below the root under that
\* block's guard while another reads a value block under its guard, and
\* neither holds anything else.
C20_Witness ==
    \E t1, t2 \in Threads :
        /\ thr[t1].pc = "key_read" /\ thr[t1].current_block # 0
        /\ Holds(t1) = { << "key", thr[t1].current_block >> }
        /\ thr[t2].pc = "val_read"
        /\ Holds(t2) = { << "value", thr[t2].vblock >> }
=============================================================================
